---- MODULE Spec2Model ----
(***************************************************************************)
(* FrustumGridGenerator (pcdet/models/backbones_3d/f2v/                    *)
(* frustum_grid_generator.py): dense voxel grid -> LiDAR frame -> camera   *)
(* frame -> image coordinates + depth bin, normalised, with non-finite     *)
(* scalars replaced by the out-of-bounds value.                            *)
(*                                                                         *)
(* Numbers.  A tensor element is an extended rational [n, d]: d > 0 is the *)
(* finite value n/d in lowest terms, d = 0 is non-finite with n = 1 for    *)
(* +inf, n = -1 for -inf and n = 0 for NaN.  The operations follow IEEE    *)
(* 754 for the non-finite cases (x/0, 0/0, inf-inf, 0*inf); a zero is      *)
(* taken as +0.  All inputs are dyadic, so float32 rounding does not occur *)
(* on them.                                                                *)
(***************************************************************************)
EXTENDS Integers, Sequences, FiniteSets, TLC

\* ------------------------------------------------------------------ numbers
Abs(i) == IF i < 0 THEN -i ELSE i

Sign(i) == IF i < 0 THEN -1 ELSE IF i > 0 THEN 1 ELSE 0

RECURSIVE GCD(_, _)
GCD(a, b) == IF b = 0 THEN a ELSE GCD(b, a % b)

\* n/d in lowest terms with a positive denominator; d = 0 keeps only the sign
Q(n, d) ==
    IF d = 0 THEN [n |-> Sign(n), d |-> 0]
    ELSE LET g == GCD(Abs(n), Abs(d))
         IN  [n |-> (Sign(d) * n) \div g, d |-> Abs(d) \div g]

R(i) == [n |-> i, d |-> 1]

NaN == [n |-> 0, d |-> 0]

IsFinite(x) == x.d # 0

IsNaN(x) == x.d = 0 /\ x.n = 0

Mul(x, y) ==
    IF x.d = 1 /\ y.d = 1 THEN [n |-> x.n * y.n, d |-> 1]
    ELSE Q(x.n * y.n, x.d * y.d)

Add(x, y) ==
    IF x.d = 1 /\ y.d = 1 THEN [n |-> x.n + y.n, d |-> 1]
    ELSE IF x.d = 0 /\ y.d = 0 THEN (IF x.n = y.n THEN x ELSE NaN)
    ELSE Q(x.n * y.d + y.n * x.d, x.d * y.d)

Neg(x) == [n |-> -x.n, d |-> x.d]

Sub(x, y) == Add(x, Neg(y))

\* 1/y: 1/0 = +inf, 1/inf = 0, 1/NaN = NaN
Recip(y) == IF y.n < 0 THEN [n |-> -y.d, d |-> -y.n] ELSE [n |-> y.d, d |-> y.n]

Div(x, y) == Mul(x, Recip(y))

\* order on finite values
Leq(x, y) == x.n * y.d <= y.n * x.d

Less(x, y) == x.n * y.d < y.n * x.d

Floor(x) == x.n \div x.d

\* ----------------------------------------------------------------- tensors
Idx(n) == 0 .. (n - 1)

RECURSIVE SumTo(_, _)
SumTo(f, k) == IF k = 0 THEN R(0) ELSE Add(SumTo(f, k - 1), f[k])

\* a @ b for a (r x 4) and b (4 x c)
MatMul(a, b) ==
    [i \in DOMAIN a |->
        [j \in DOMAIN b[1] |->
            SumTo([k \in 1 .. 4 |-> Mul(a[i][k], b[k][j])], 4)]]

\* m @ (p, 1) for a (r x 4) matrix and a 3-point
MatVec(m, p) ==
    LET h == <<p[1], p[2], p[3], R(1)>>
    IN  [i \in DOMAIN m |-> SumTo([k \in 1 .. 4 |-> Mul(m[i][k], h[k])], 4)]

IntMat(m) == [i \in DOMAIN m |-> [j \in DOMAIN m[i] |-> R(m[i][j])]]

\* ----------------------------------------------------- bounds and inputs
\* largest number of cameras B in one call
MaxB == 2

\* self.out_of_bounds_val
out_of_bounds_val == -2

\* disc_cfg: uniform discretisation of [0, 2) into two bins
disc_cfg == [mode |-> "UD", depth_min |-> 0, depth_max |-> 2, num_bins |-> 2]

\* constructor arguments (grid_size, pc_range)
Configs ==
    { [grid_size |-> <<2, 2, 2>>, pc_range |-> <<0, 0, 0, 2, 2, 2>>],
      [grid_size |-> <<1, 2, 3>>, pc_range |-> <<0, -1, 0, 2, 1, 3>>],
      [grid_size |-> <<1, 1, 1>>, pc_range |-> <<0, 0, 0, 0, 1, 1>>],
      [grid_size |-> <<1, 1, 1>>, pc_range |-> <<1, 0, 0, 0, 1, 1>>],
      [grid_size |-> <<0, 1, 1>>, pc_range |-> <<0, 0, 0, 1, 1, 1>>] }

Identity4 == IntMat(<<<<1, 0, 0, 0>>, <<0, 1, 0, 0>>, <<0, 0, 1, 0>>, <<0, 0, 0, 1>>>>)

\* translation by (-1/2, 0, -1/2): puts voxel centres on the camera plane z = 0
ShiftXZ ==
    << <<R(1), R(0), R(0), Q(-1, 2)>>,
       <<R(0), R(1), R(0), R(0)>>,
       <<R(0), R(0), R(1), Q(-1, 2)>>,
       <<R(0), R(0), R(0), R(1)>> >>

\* lidar_to_cam matrices (bottom row 0 0 0 1)
ExtrinsicSet == {Identity4, ShiftXZ}

\* pinhole projection with unit focal length: w = z
Pinhole == IntMat(<<<<1, 0, 0, 0>>, <<0, 1, 0, 0>>, <<0, 0, 1, 0>>>>)

\* projection with constant w = 1: u = 2x, v = 2y
Ortho2 == IntMat(<<<<2, 0, 0, 0>>, <<0, 2, 0, 0>>, <<0, 0, 0, 1>>>>)

\* cam_to_img matrices
IntrinsicSet == {Pinhole, Ortho2}

\* image shapes [H, W]
ShapeSet == {<<2, 2>>, <<2, 3>>, <<3, 2>>}

SeqsUpTo(S, n) == UNION {[1 .. k -> S] : k \in 1 .. n}

\* arguments of forward: the three batch dimensions vary independently
Inputs ==
    [lidar_to_cam : SeqsUpTo(ExtrinsicSet, MaxB),
     cam_to_img   : SeqsUpTo(IntrinsicSet, MaxB),
     image_shape  : SeqsUpTo(ShapeSet, MaxB)]

\* arguments used by the simultaneous callers
ParInputs ==
    { [lidar_to_cam |-> <<Identity4>>, cam_to_img |-> <<Pinhole>>,
       image_shape |-> <<<<2, 2>>>>],
      [lidar_to_cam |-> <<ShiftXZ>>, cam_to_img |-> <<Pinhole>>,
       image_shape |-> <<<<2, 3>>>>],
      [lidar_to_cam |-> <<ShiftXZ, Identity4>>, cam_to_img |-> <<Pinhole, Ortho2>>,
       image_shape |-> <<<<2, 3>>, <<3, 2>>>>],
      [lidar_to_cam |-> <<Identity4>>, cam_to_img |-> <<Pinhole, Ortho2>>,
       image_shape |-> <<<<2, 2>>>>] }

Callers == {"c1", "c2"}

NoArgs == [lidar_to_cam |-> <<>>, cam_to_img |-> <<>>, image_shape |-> <<>>]

\* ------------------------------------------------------------- __init__
\* kornia.utils.create_meshgrid3d(depth, height, width, normalized_coordinates=False):
\* a 1 x D x H x W x 3 tensor whose entry [0, d, h, w] is (d, w, h)
create_meshgrid3d(depth, height, width) ==
    << [i \in Idx(depth) \X Idx(height) \X Idx(width) |-> <<R(i[1]), R(i[3]), R(i[2])>>] >>

\* tensor.permute(0, 1, 3, 2, 4) without the exchange of the two axes
permute_none(t) == t

\* tensor.permute(0, 1, 3, 2, 4): new[b, x, y, z] = old[b, x, z, y]
permute_01324(t) ==
    [b \in DOMAIN t |->
        [i \in {<<j[1], j[3], j[2]>> : j \in DOMAIN t[b]} |-> t[b][<<i[1], i[3], i[2]>>]]]

\* tensor += s
add_scalar(t, s) ==
    [b \in DOMAIN t |-> [i \in DOMAIN t[b] |-> [k \in 1 .. 3 |-> Add(t[b][i][k], s)]]]

\* (self.pc_max - self.pc_min) / self.grid_size, elementwise
VoxelSize(pmin, pmax, gs) == [k \in 1 .. 3 |-> Div(R(pmax[k] - pmin[k]), R(gs[k]))]

\* the grid of voxel corners: no offset to the centre
VoxelGrid_corner(gs) == permute_01324(create_meshgrid3d(gs[1], gs[3], gs[2]))

\* lines 33-44: meshgrid with depth = X, width = Y, height = Z, permuted, centred
VoxelGrid(gs) ==
    add_scalar(permute_01324(create_meshgrid3d(gs[1], gs[3], gs[2])), Q(1, 2))

grid_to_lidar_unproject(pmin, vsize) ==
    << <<vsize[1], R(0), R(0), R(pmin[1])>>,
       <<R(0), vsize[2], R(0), R(pmin[2])>>,
       <<R(0), R(0), vsize[3], R(pmin[3])>>,
       <<R(0), R(0), R(0), R(1)>> >>

\* ------------------------------------------------------- transform_grid
\* tensor.repeat_interleave(repeats=B, dim=0): a new tensor
repeat_interleave(t, B) == [b \in 1 .. (Len(t) * B) |-> t[((b - 1) \div B) + 1]]

\* kornia.transform_points for a transform with bottom row (0, 0, 0, 1)
transform_points(trans, p) == LET q == MatVec(trans, p) IN <<q[1], q[2], q[3]>>

\* transform_utils.project_to_image: (u*w, v*w, w) = project @ (p, 1);
\* the pixel is (u, v) after the divide by w and the depth is w
project_to_image(project, p) ==
    LET h == MatVec(project, p)
    IN  [img |-> <<Div(h[1], h[3]), Div(h[2], h[3])>>, depth |-> h[3]]

\* depth_utils.bin_depths, mode UD: the index of the uniform bin holding the
\* depth, clamped to the boundary bins
bin_depths(depth, cfg) ==
    IF IsNaN(depth) THEN NaN
    ELSE IF ~IsFinite(depth) THEN (IF depth.n > 0 THEN R(cfg.num_bins - 1) ELSE R(0))
    ELSE LET bin_size == Q(cfg.depth_max - cfg.depth_min, cfg.num_bins)
             k == Floor(Div(Sub(depth, R(cfg.depth_min)), bin_size))
         IN  IF k < 0 THEN R(0)
             ELSE IF k > cfg.num_bins - 1 THEN R(cfg.num_bins - 1) ELSE R(k)

\* I_C.reshape(B, 1, 1, 3, 4) needs B * 12 elements
ReshapeOK(l2c, c2i) == Len(c2i) * 12 = Len(l2c) * 12

transform_grid(vg, g2l, l2c, c2i) ==
    LET B == Len(l2c)
        trans == [b \in 1 .. B |-> MatMul(l2c[b], g2l)]
        rep == repeat_interleave(vg, B)
        camera_grid == [b \in 1 .. B |->
                           [i \in DOMAIN rep[b] |-> transform_points(trans[b], rep[b][i])]]
    IN  [b \in 1 .. B |->
            [i \in DOMAIN camera_grid[b] |->
                LET pr == project_to_image(c2i[b], camera_grid[b][i])
                IN  <<pr.img[1], pr.img[2], bin_depths(pr.depth, disc_cfg)>>]]

\* -------------------------------------------------------------- forward
SetMax(S) == CHOOSE m \in S : \A x \in S : x <= m

\* torch.max(image_shape, dim=0): the maximum of each column of the first rows only
column_max_first(shape) == shape[1]

\* torch.max(image_shape, dim=0): the maximum of each column
column_max(shape) ==
    [k \in 1 .. 2 |-> SetMax({shape[b][k] : b \in DOMAIN shape})]

\* torch.cat((image_shape, image_depth))
FrustumShape_swapped(shape) == column_max(shape) \o <<disc_cfg.num_bins>>

\* torch.cat((image_depth, image_shape)): (num_bins, H, W)
FrustumShape(shape) == <<disc_cfg.num_bins>> \o column_max(shape)

\* grid_utils.normalize_coords: the shape is reversed to (W, H, num_bins) and
\* each coordinate becomes coords / (shape - 1) * 2 - 1
normalize_coords(coords, shape) ==
    LET flipped == [k \in 1 .. 3 |-> shape[4 - k]]
    IN  [b \in DOMAIN coords |->
            [i \in DOMAIN coords[b] |->
                [k \in 1 .. 3 |->
                    Add(Mul(Div(coords[b][i][k], R(flipped[k] - 1)), R(2)), R(-1))]]]

\* frustum_grid[torch.isnan(frustum_grid)] = out_of_bounds_val
MaskNaNOnly(g) ==
    [b \in DOMAIN g |->
        [i \in DOMAIN g[b] |->
            [k \in 1 .. 3 |->
                IF IsNaN(g[b][i][k]) THEN R(out_of_bounds_val) ELSE g[b][i][k]]]]

\* frustum_grid[~torch.isfinite(frustum_grid)] = out_of_bounds_val
MaskNonFinite(g) ==
    [b \in DOMAIN g |->
        [i \in DOMAIN g[b] |->
            [k \in 1 .. 3 |->
                IF ~IsFinite(g[b][i][k]) THEN R(out_of_bounds_val) ELSE g[b][i][k]]]]

\* ---------------------------------------------------------------- state
VARIABLES
    constructed,    \* __init__ has run
    grid_size,      \* self.grid_size
    pc_min,         \* self.pc_min
    pc_max,         \* self.pc_max
    voxel_size,     \* self.voxel_size
    voxel_grid,     \* self.voxel_grid, 1 x X x Y x Z x 3
    grid_to_lidar,  \* self.grid_to_lidar, 4 x 4
    pc,             \* per caller: position inside forward
    args,           \* per caller: (lidar_to_cam, cam_to_img, image_shape)
    transformed,    \* per caller: frustum_grid as returned by transform_grid
    frustum_shape,  \* per caller: the reference shape of the normalisation
    normalized,     \* per caller: frustum_grid as returned by normalize_coords
    frustum_grid    \* per caller: frustum_grid after the masked write, returned

selfVars == <<constructed, grid_size, pc_min, pc_max, voxel_size, voxel_grid, grid_to_lidar>>

callVars == <<pc, args, transformed, frustum_shape, normalized, frustum_grid>>

vars == <<selfVars, callVars>>

Init ==
    /\ constructed = FALSE
    /\ grid_size = <<>>
    /\ pc_min = <<>>
    /\ pc_max = <<>>
    /\ voxel_size = <<>>
    /\ voxel_grid = <<>>
    /\ grid_to_lidar = <<>>
    /\ pc = [c \in Callers |-> "idle"]
    /\ args = [c \in Callers |-> NoArgs]
    /\ transformed = [c \in Callers |-> <<>>]
    /\ frustum_shape = [c \in Callers |-> <<>>]
    /\ normalized = [c \in Callers |-> <<>>]
    /\ frustum_grid = [c \in Callers |-> <<>>]

\* __init__(grid_size, pc_range, disc_cfg): no argument is validated
Construct(cfg) ==
    /\ ~constructed
    /\ constructed' = TRUE
    /\ grid_size' = cfg.grid_size
    /\ pc_min' = <<cfg.pc_range[1], cfg.pc_range[2], cfg.pc_range[3]>>
    /\ pc_max' = <<cfg.pc_range[4], cfg.pc_range[5], cfg.pc_range[6]>>
    /\ voxel_size' = VoxelSize(pc_min', pc_max', grid_size')
    /\ voxel_grid' = VoxelGrid(grid_size')
    /\ grid_to_lidar' = grid_to_lidar_unproject(pc_min', voxel_size')
    /\ UNCHANGED callVars

\* forward, lines 125-128: the call of transform_grid; the reshape of cam_to_img
\* raises when its batch dimension differs from that of lidar_to_cam
Forward(c, a) ==
    /\ constructed
    /\ pc[c] = "idle"
    /\ args' = [args EXCEPT ![c] = a]
    /\ IF ReshapeOK(a.lidar_to_cam, a.cam_to_img)
       THEN /\ transformed' = [transformed EXCEPT ![c] =
                   transform_grid(voxel_grid, grid_to_lidar, a.lidar_to_cam, a.cam_to_img)]
            /\ pc' = [pc EXCEPT ![c] = "transformed"]
       ELSE /\ pc' = [pc EXCEPT ![c] = "failed"]
            /\ UNCHANGED transformed
    /\ UNCHANGED <<frustum_shape, normalized, frustum_grid>>
    /\ UNCHANGED selfVars

\* forward, lines 131-134
Normalize(c) ==
    /\ pc[c] = "transformed"
    /\ frustum_shape' = [frustum_shape EXCEPT ![c] = FrustumShape(args[c].image_shape)]
    /\ normalized' = [normalized EXCEPT ![c] =
           normalize_coords(transformed[c], frustum_shape'[c])]
    /\ pc' = [pc EXCEPT ![c] = "normalized"]
    /\ UNCHANGED <<args, transformed, frustum_grid>>
    /\ UNCHANGED selfVars

\* the masked write lands in the stored grid: every stored voxel of a
\* location holding a non-finite value is overwritten
MaskShared(c) ==
    /\ pc[c] = "normalized"
    /\ frustum_grid' = [frustum_grid EXCEPT ![c] = MaskNonFinite(normalized[c])]
    /\ pc' = [pc EXCEPT ![c] = "done"]
    /\ voxel_grid' =
           [g \in DOMAIN voxel_grid |->
               [i \in DOMAIN voxel_grid[g] |->
                   IF \E b \in DOMAIN normalized[c] :
                          \E k \in 1 .. 3 : ~IsFinite(normalized[c][b][i][k])
                   THEN [k \in 1 .. 3 |-> R(out_of_bounds_val)]
                   ELSE voxel_grid[g][i]]]
    /\ UNCHANGED <<args, transformed, frustum_shape, normalized>>
    /\ UNCHANGED <<constructed, grid_size, pc_min, pc_max, voxel_size, grid_to_lidar>>

\* forward, lines 137-140: the masked write on the per-call array, and the return
Mask(c) ==
    /\ pc[c] = "normalized"
    /\ frustum_grid' = [frustum_grid EXCEPT ![c] = MaskNonFinite(normalized[c])]
    /\ pc' = [pc EXCEPT ![c] = "done"]
    /\ UNCHANGED <<args, transformed, frustum_shape, normalized>>
    /\ UNCHANGED selfVars

\* the caller drops the result (or the exception) of the call
Discard(c) ==
    /\ pc[c] \in {"done", "failed"}
    /\ pc' = [pc EXCEPT ![c] = "idle"]
    /\ args' = [args EXCEPT ![c] = NoArgs]
    /\ transformed' = [transformed EXCEPT ![c] = <<>>]
    /\ frustum_shape' = [frustum_shape EXCEPT ![c] = <<>>]
    /\ normalized' = [normalized EXCEPT ![c] = <<>>]
    /\ frustum_grid' = [frustum_grid EXCEPT ![c] = <<>>]
    /\ UNCHANGED selfVars

\* one caller, every argument combination
Next ==
    \/ \E cfg \in Configs : Construct(cfg)
    \/ \E a \in Inputs : Forward("c1", a)
    \/ Normalize("c1")
    \/ Mask("c1")
    \/ Discard("c1")

Spec == Init /\ [][Next]_vars

\* two callers whose calls interleave
NextPar ==
    \/ \E cfg \in Configs : Construct(cfg)
    \/ \E c \in Callers : \E a \in ParInputs : Forward(c, a)
    \/ \E c \in Callers : Normalize(c)
    \/ \E c \in Callers : Mask(c)
    \/ \E c \in Callers : Discard(c)

SpecPar == Init /\ [][NextPar]_vars

\* ------------------------------------------------------------ properties
Sentinel == R(out_of_bounds_val)

InUnitRange(x) == IsFinite(x) /\ Leq(R(-1), x) /\ Leq(x, R(1))

Returned(c) == pc[c] = "done"

AfterNormalize(c) == pc[c] \in {"normalized", "done"}

\* 2 * raw / (extent - 1) - 1
Normalised(raw, extent) == Sub(Div(Mul(R(2), raw), R(extent - 1)), R(1))

MaxH(c) == SetMax({args[c].image_shape[b][1] : b \in DOMAIN args[c].image_shape})

MaxW(c) == SetMax({args[c].image_shape[b][2] : b \in DOMAIN args[c].image_shape})

\* the constructor arguments the interface asks for: positive grid_size and
\* max > min on every axis
ValidGridSpec == \A k \in 1 .. 3 : grid_size[k] > 0 /\ pc_max[k] > pc_min[k]

\* C1: every returned triple (u, v, depth_bin) is either three finite values
\* in [-1, 1] or three sentinels, never a mix (stated for generators built
\* from a valid grid_size and pc_range).
C1_CoherentTriples ==
    \A c \in Callers :
        (Returned(c) /\ ValidGridSpec) =>
            \A b \in DOMAIN frustum_grid[c] :
                \A i \in DOMAIN frustum_grid[c][b] :
                    LET t == frustum_grid[c][b][i]
                    IN  \/ \A k \in 1 .. 3 : InUnitRange(t[k])
                        \/ \A k \in 1 .. 3 : t[k] = Sentinel

\* C2: a call whose matrices agree in batch size never fails, whatever the
\* projective denominators are; the returned array is complete, holds no NaN
\* and no infinity, holds the sentinel exactly where the normalised value was
\* not finite, and the normalised value everywhere else.
C2_MaskedScalars ==
    \A c \in Callers :
        /\ pc[c] = "failed" => Len(args[c].cam_to_img) # Len(args[c].lidar_to_cam)
        /\ Returned(c) =>
              /\ DOMAIN frustum_grid[c] = 1 .. Len(args[c].lidar_to_cam)
              /\ \A b \in DOMAIN frustum_grid[c] :
                    /\ DOMAIN frustum_grid[c][b] = DOMAIN voxel_grid[1]
                    /\ \A i \in DOMAIN frustum_grid[c][b] :
                          \A k \in 1 .. 3 :
                              /\ IsFinite(frustum_grid[c][b][i][k])
                              /\ frustum_grid[c][b][i][k] =
                                     IF IsFinite(normalized[c][b][i][k])
                                     THEN normalized[c][b][i][k]
                                     ELSE Sentinel

\* a returned array holding a masked NaN, a masked infinity and, in the same
\* triple as a masked value, a finite value that was kept
C2_Witness ==
    \E c \in Callers :
        /\ Returned(c)
        /\ \E b \in DOMAIN frustum_grid[c] :
              /\ \E i \in DOMAIN frustum_grid[c][b] :
                    /\ IsNaN(normalized[c][b][i][1])
                    /\ frustum_grid[c][b][i][1] = Sentinel
              /\ \E i \in DOMAIN frustum_grid[c][b] :
                    /\ normalized[c][b][i][2] = [n |-> 1, d |-> 0]
                    /\ frustum_grid[c][b][i][2] = Sentinel
                    /\ IsFinite(normalized[c][b][i][3])
                    /\ frustum_grid[c][b][i][3] = normalized[c][b][i][3]

\* C3: a call that returns an array has the same batch dimension in
\* lidar_to_cam, cam_to_img and image_shape: any mismatch makes the call fail
\* (stated for generators built from a valid grid_size and pc_range).
C3_BatchMismatchFails ==
    \A c \in Callers :
        (Returned(c) /\ ValidGridSpec) =>
            /\ Len(args[c].cam_to_img) = Len(args[c].lidar_to_cam)
            /\ Len(args[c].image_shape) = Len(args[c].lidar_to_cam)

\* C4: a constructed generator has a positive grid_size, max > min on every
\* axis of pc_range, and a positive voxel_size.
C4_ValidatedConstruction ==
    constructed =>
        \A k \in 1 .. 3 :
            /\ grid_size[k] > 0
            /\ pc_max[k] > pc_min[k]
            /\ IsFinite(voxel_size[k])
            /\ voxel_size[k].n > 0

\* C5: each finite raw coordinate is normalised as 2*raw/(extent-1) - 1 with
\* u against the reference width, v against the reference height and the depth
\* bin against num_bins; the reference shape is (num_bins, H, W).
C5_NormalizeAxes ==
    \A c \in Callers :
        AfterNormalize(c) =>
            /\ frustum_shape[c] = <<disc_cfg.num_bins, MaxH(c), MaxW(c)>>
            /\ \A b \in DOMAIN transformed[c] :
                  \A i \in DOMAIN transformed[c][b] :
                      LET raw == transformed[c][b][i]
                          out == normalized[c][b][i]
                      IN  /\ IsFinite(raw[1]) => out[1] = Normalised(raw[1], MaxW(c))
                          /\ IsFinite(raw[2]) => out[2] = Normalised(raw[2], MaxH(c))
                          /\ IsFinite(raw[3]) => out[3] = Normalised(raw[3], disc_cfg.num_bins)

\* a normalised call whose reference width, height and num_bins separate the
\* axes: width 3, height 2 in one triple with non-zero finite u and v
C5_Witness ==
    \E c \in Callers :
        /\ AfterNormalize(c)
        /\ frustum_shape[c] = <<2, 2, 3>>
        /\ \E b \in DOMAIN transformed[c] :
              \E i \in DOMAIN transformed[c][b] :
                  LET raw == transformed[c][b][i]
                  IN  /\ \A k \in 1 .. 3 : IsFinite(raw[k])
                      /\ raw[1].n # 0 /\ raw[2].n # 0 /\ raw[3].n # 0
                      /\ normalized[c][b][i][1] # normalized[c][b][i][2]

\* C6: the reference height and width are the per-column maxima over the
\* batch, and a pixel on a smaller camera's own last column or row does not
\* normalise to +1 when the batch holds a larger camera on that axis.
C6_BatchMaximum ==
    \A c \in Callers :
        AfterNormalize(c) =>
            /\ frustum_shape[c][2] = MaxH(c)
            /\ frustum_shape[c][3] = MaxW(c)
            /\ \A b \in DOMAIN transformed[c] \cap DOMAIN args[c].image_shape :
                  \A i \in DOMAIN transformed[c][b] :
                      LET raw == transformed[c][b][i]
                          H_b == args[c].image_shape[b][1]
                          W_b == args[c].image_shape[b][2]
                      IN  /\ (raw[1] = R(W_b - 1) /\ W_b < MaxW(c))
                              => normalized[c][b][i][1] # R(1)
                          /\ (raw[2] = R(H_b - 1) /\ H_b < MaxH(c))
                              => normalized[c][b][i][2] # R(1)

\* two cameras of shapes (2, 3) and (3, 2): the maxima come from different
\* rows, and a voxel of each camera lies on that camera's own boundary
C6_Witness ==
    \E c \in Callers :
        /\ AfterNormalize(c)
        /\ Len(args[c].lidar_to_cam) = 2
        /\ args[c].image_shape \in {<<<<2, 3>>, <<3, 2>>>>, <<<<3, 2>>, <<2, 3>>>>}
        /\ frustum_shape[c] = <<2, 3, 3>>
        /\ \E b \in 1 .. 2 :
              \E i \in DOMAIN transformed[c][b] :
                  /\ transformed[c][b][i][1] = R(args[c].image_shape[b][2] - 1)
                  /\ args[c].image_shape[b][2] < MaxW(c)
                  /\ normalized[c][b][i][1] = R(0)
        /\ \E b \in 1 .. 2 :
              \E i \in DOMAIN transformed[c][b] :
                  /\ transformed[c][b][i][2] = R(args[c].image_shape[b][1] - 1)
                  /\ args[c].image_shape[b][1] < MaxH(c)

\* the end-to-end scenario: grid (2,2,2), range [0,0,0,2,2,2], identity
\* extrinsics, unit pinhole, image shape [2,2], num_bins 2
Scenario(c) ==
    /\ AfterNormalize(c)
    /\ grid_size = <<2, 2, 2>>
    /\ pc_min = <<0, 0, 0>>
    /\ pc_max = <<2, 2, 2>>
    /\ args[c] = [lidar_to_cam |-> <<Identity4>>, cam_to_img |-> <<Pinhole>>,
                  image_shape |-> <<<<2, 2>>>>]

\* the projective depth w of the first voxel for camera 1
ScenarioDepth(c) ==
    project_to_image(args[c].cam_to_img[1],
        transform_points(MatMul(args[c].lidar_to_cam[1], grid_to_lidar),
                         voxel_grid[1][<<0, 0, 0>>])).depth

\* C7 as stated: in the scenario the voxel centre (0.5,0.5,0.5) projects to
\* the image coordinate (0.5,0.5) with depth 0.5, falls in bin 0 and is
\* normalised against (2,2,2).
C7_Original ==
    \A c \in Callers :
        Scenario(c) =>
            /\ voxel_grid[1][<<0, 0, 0>>] = <<Q(1, 2), Q(1, 2), Q(1, 2)>>
            /\ transformed[c][1][<<0, 0, 0>>] = <<Q(1, 2), Q(1, 2), R(0)>>
            /\ ScenarioDepth(c) = Q(1, 2)
            /\ frustum_shape[c] = <<2, 2, 2>>

\* C7 amended: in the scenario the voxel centre (0.5,0.5,0.5) projects to the
\* image coordinate (1,1), the homogeneous (0.5,0.5,0.5) divided by w = 0.5,
\* with depth 0.5, falls in bin 0 and is normalised against (2,2,2).
C7_Scenario ==
    \A c \in Callers :
        Scenario(c) =>
            /\ voxel_grid[1][<<0, 0, 0>>] = <<Q(1, 2), Q(1, 2), Q(1, 2)>>
            /\ transformed[c][1][<<0, 0, 0>>] = <<R(1), R(1), R(0)>>
            /\ ScenarioDepth(c) = Q(1, 2)
            /\ frustum_shape[c] = <<2, 2, 2>>
            /\ normalized[c][1][<<0, 0, 0>>] = <<R(1), R(1), R(-1)>>

C7_Witness == \E c \in Callers : Scenario(c) /\ Returned(c)

\* C8: the stored grid entry [x,y,z] is (x+0.5, y+0.5, z+0.5) and the
\* grid-to-LiDAR matrix maps it to min + (index + 0.5) * (max - min)/grid_size
\* on every axis.
C8_VoxelCentres ==
    constructed =>
        /\ Len(voxel_grid) = 1
        /\ DOMAIN voxel_grid[1] = Idx(grid_size[1]) \X Idx(grid_size[2]) \X Idx(grid_size[3])
        /\ \A i \in DOMAIN voxel_grid[1] :
              /\ voxel_grid[1][i] = [k \in 1 .. 3 |-> Q(2 * i[k] + 1, 2)]
              /\ transform_points(grid_to_lidar, voxel_grid[1][i]) =
                     [k \in 1 .. 3 |->
                         Add(R(pc_min[k]),
                             Mul(Q(2 * i[k] + 1, 2),
                                 Div(R(pc_max[k] - pc_min[k]), R(grid_size[k]))))]

\* a grid with three different extents, holding a voxel whose Y and Z
\* indices differ
C8_Witness ==
    /\ constructed
    /\ grid_size = <<1, 2, 3>>
    /\ <<0, 1, 2>> \in DOMAIN voxel_grid[1]
    /\ voxel_grid[1][<<0, 1, 2>>] = <<Q(1, 2), Q(3, 2), Q(5, 2)>>
    /\ transform_points(grid_to_lidar, voxel_grid[1][<<0, 1, 2>>]) = <<R(1), Q(1, 2), Q(5, 2)>>

\* C9: no step of any forward call, alone or interleaved with another call,
\* changes the stored voxel_grid, grid_to_lidar, voxel_size, pc_min, pc_max
\* or grid_size.
C9_SelfUnchanged == [][constructed => UNCHANGED selfVars]_vars

\* one caller has returned an array with sentinels from a batch of two while
\* the other is inside its own call
C9_Witness ==
    /\ Returned("c1")
    /\ Len(args["c1"].lidar_to_cam) = 2
    /\ \E b \in DOMAIN frustum_grid["c1"] :
          \E i \in DOMAIN frustum_grid["c1"][b] : frustum_grid["c1"][b][i][1] = Sentinel
    /\ pc["c2"] = "normalized"
    /\ Len(args["c2"].lidar_to_cam) = 1

\* C10: two returned calls with the same arguments hold the same array,
\* whatever calls were made between them.
C10_Deterministic ==
    \A c1 \in Callers : \A c2 \in Callers :
        (Returned(c1) /\ Returned(c2) /\ args[c1] = args[c2])
            => frustum_grid[c1] = frustum_grid[c2]

\* both callers hold the result of the same arguments, with sentinels in it
C10_Witness ==
    /\ Returned("c1") /\ Returned("c2")
    /\ args["c1"] = args["c2"]
    /\ \E b \in DOMAIN frustum_grid["c1"] :
          \E i \in DOMAIN frustum_grid["c1"][b] : frustum_grid["c1"][b][i][1] = Sentinel

====
